---- MODULE Spec2Model ----
(***************************************************************************)
(* Streaming name-merging pipeline of RL_processing.                       *)
(*                                                                         *)
(*   Spec      NameProcessingService.convert_to_ndjson_stream, the         *)
(*             generator, one action per basic block between its yields,   *)
(*             with the consumer that advances or closes it.               *)
(*   SpecSort  NameProcessingService.external_sort_ndjson, one action per  *)
(*             line read, chunk written and record merged.                 *)
(*   SpecVal   StreamingValidator, fed a request body in chunks.           *)
(*   SpecAdapt sync_gen_to_async_gen with its worker and its consumer.     *)
(*   SpecSave  save_request_to_tempfile under save_request_with_handling.  *)
(*   SpecCombine the saving of the body by combine_names itself.          *)
(*   SpecTwo   two requests of combine_names interleaved on one disk.      *)
(*   SpecPulled the generator of Spec under a consumer that keeps pulling  *)
(*             and never closes it, with weak fairness of its steps.       *)
(***************************************************************************)
EXTENDS Integers, Sequences, FiniteSets, TLC

\* ------------------------------------------------------------------ bounds
MaxFirst == 3     \* records of first_names in the request
MaxLast == 2      \* records of last_names in the request
MaxId == 2        \* ids are 1..MaxId
MaxBatch == 2     \* batch_size is 1..MaxBatch
MaxLines == 4     \* lines of an intermediate file given to the sorter alone
MaxElems == 3     \* elements of the one arbitrary item of a request body
MaxChunks == 3    \* chunks a generator handed to the adapter yields

Ids == 1 .. MaxId
BatchSizes == 1 .. MaxBatch

\* Python's None, where a record [name, id] is expected.
None == <<>>

\* A names array of the request: the i-th item is [name, id]; the name is the
\* item's position, so that every record of a side is told apart.
ItemsOf(ids) == [i \in 1 .. Len(ids) |-> <<i, ids[i]>>]
IdSeqs(n) == UNION {[1 .. k -> Ids] : k \in 0 .. n}

VARIABLES
    \* the request file and the call's arguments
    first_names, last_names, malformed, batch_size, present, defect,
    \* convert_to_ndjson_stream: the generator's frame
    pc, atYield, output_dir, f_first, f_last, idx, buffer,
    first_sorted, last_sorted,
    \* merge_full_names / merge_unpaired: the sub-generator's frame
    first_pos, last_pos, first,
    \* the chunks the generator has yielded, in order
    out,
    \* external_sort_ndjson called on its own: its arguments and frame
    ndjson_path, sort_batch, sort_pc, tmpdir, chunk, chunk_paths, line_no,
    heads, sorted_path, sort_exc,
    \* StreamingValidator: the request body, then the object's fields
    doc, tail, eager, body, v_buffer, seen_first_names, seen_last_names, vstate,
    v_message,
    \* history: some feed call so far ended inside a token
    cut_inside_token,
    \* sync_gen_to_async_gen: the generator, the adapter's frame, the worker
    \* thread, and the consumer of the asynchronous stream
    sync_gen, gen_raises, gen_pos, a_pc, worker, a_item, consumer, delivered, advances,
    \* save_request_to_tempfile under save_request_with_handling: the temporary
    \* file, the position, the failure met, the exception that leaves the
    \* former and what the latter returns
    temp, temp_content, s_pc, s_fault, s_exc, s_result,
    \* two concurrent requests: the files and directories on the disk, and
    \* the frame of each request
    fs, reqs

pipeVars == <<first_names, last_names, malformed, batch_size, present, defect, pc, atYield,
              output_dir, f_first, f_last, idx, buffer, first_sorted,
              last_sorted, first_pos, last_pos, first, out>>

sortVars == <<ndjson_path, sort_batch, sort_pc, tmpdir, chunk, chunk_paths,
              line_no, heads, sorted_path, sort_exc>>

valVars == <<doc, tail, eager, body, v_buffer, seen_first_names, seen_last_names,
             vstate, v_message, cut_inside_token>>

adaptVars == <<sync_gen, gen_raises, gen_pos, a_pc, worker, a_item, consumer,
               delivered, advances>>

saveVars == <<temp, temp_content, s_pc, s_fault, s_exc, s_result>>

twoVars == <<fs, reqs>>

vars == <<pipeVars, sortVars, valVars, adaptVars, saveVars, twoVars>>

\* What the actions of one part leave alone.
offPipe == <<sortVars, valVars, adaptVars, saveVars, twoVars>>
offSort == <<pipeVars, valVars, adaptVars, saveVars, twoVars>>
offVal == <<pipeVars, sortVars, adaptVars, saveVars, twoVars>>
offAdapt == <<pipeVars, sortVars, valVars, saveVars, twoVars>>
offSave == <<pipeVars, sortVars, adaptVars, twoVars>>
offTwo == <<pipeVars, sortVars, valVars, adaptVars, saveVars>>

\* ------------------------------------------------------------- json lines
\* json.dumps(item) + "\n" for an item [name, id], and json.loads of that line.
Dumps(item) == [n |-> item[1], i |-> item[2]]
Loads(line) == <<line.n, line.i>>
\* A line that line.strip() leaves empty.
Blank == [n |-> 0, i |-> 0]
\* A line json.loads rejects, and a line that is a JSON number.
NotJsonLine == [n |-> 0, i |-> -1]
ScalarLine == [n |-> 0, i |-> -2]

\* Line 165: json.loads(line) returns.
Decodes(line) == line # NotJsonLine
\* Lines 168, 176: key=lambda x: x[1] returns for every record of the batch.
Keyed(batch) == \A k \in DOMAIN batch : batch[k] # <<ScalarLine.n, ScalarLine.i>>

\* --------------------------------------------------- external_sort_ndjson
\* list.sort(key=lambda x: x[1]): stable insertion by id.
\* An insertion at the front, whatever the ids.
InsertAtFront(s, x) == <<x>> \o s

RECURSIVE InsertById(_, _)
InsertById(s, x) ==
    IF s = <<>> THEN <<x>>
    ELSE IF s[Len(s)][2] <= x[2] THEN Append(s, x)
    ELSE Append(InsertById(SubSeq(s, 1, Len(s) - 1), x), s[Len(s)])

RECURSIVE SortById(_)
SortById(s) ==
    IF s = <<>> THEN <<>>
    ELSE InsertById(SortById(SubSeq(s, 1, Len(s) - 1)), s[Len(s)])

\* The batch file written for a full (or the residual) batch.
ChunkFile(batch) == [k \in 1 .. Len(batch) |-> Dumps(SortById(batch)[k])]

\* Line 167: if len(chunk) >= batch_size.
BatchFullLate(batch, b) == Len(batch) > b
BatchFull(batch, b) == Len(batch) >= b

\* Chunking loop: the batch files written for the lines from position p on,
\* with `batch` the records in memory.
RECURSIVE MakeChunks(_, _, _, _)
MakeChunks(lines, p, batch, b) ==
    IF p > Len(lines)
    THEN IF batch # <<>> THEN <<ChunkFile(batch)>> ELSE <<>>
    ELSE IF lines[p] = Blank THEN MakeChunks(lines, p + 1, batch, b)
    ELSE LET c == Append(batch, Loads(lines[p]))
         IN IF BatchFull(c, b)
            THEN <<ChunkFile(c)>> \o MakeChunks(lines, p + 1, <<>>, b)
            ELSE MakeChunks(lines, p + 1, c, b)

\* heapq.merge(*iterators, key=id): the index of the batch whose head is taken
\* next: the smallest id, and among equal ids the lowest batch index.
LiveChunks(chunks, hd) == {c \in 1 .. Len(chunks) : hd[c] <= Len(chunks[c])}
HeadId(chunks, hd, c) == Loads(chunks[c][hd[c]])[2]
MergePickLowest(chunks, hd) ==
    CHOOSE c \in LiveChunks(chunks, hd) : \A d \in LiveChunks(chunks, hd) : c <= d
MergePickHighest(chunks, hd) ==
    CHOOSE c \in LiveChunks(chunks, hd) :
        \A d \in LiveChunks(chunks, hd) :
            \/ HeadId(chunks, hd, c) < HeadId(chunks, hd, d)
            \/ HeadId(chunks, hd, c) = HeadId(chunks, hd, d) /\ c >= d
MergePick(chunks, hd) ==
    CHOOSE c \in LiveChunks(chunks, hd) :
        \A d \in LiveChunks(chunks, hd) :
            \/ HeadId(chunks, hd, c) < HeadId(chunks, hd, d)
            \/ HeadId(chunks, hd, c) = HeadId(chunks, hd, d) /\ c <= d

RECURSIVE MergeChunks(_, _)
MergeChunks(chunks, hd) ==
    IF LiveChunks(chunks, hd) = {} THEN <<>>
    ELSE LET c == MergePick(chunks, hd)
         IN <<Dumps(Loads(chunks[c][hd[c]]))>>
            \o MergeChunks(chunks, [hd EXCEPT ![c] = @ + 1])

\* The intermediate copied without its blank lines, in the order it has.
ExternalSortNone(lines, b) == SelectSeq(lines, LAMBDA l : l # Blank)

\* The sorted file external_sort_ndjson leaves for an intermediate.
ExternalSort(lines, b) ==
    LET chunks == MakeChunks(lines, 1, <<>>, b)
    IN MergeChunks(chunks, [c \in 1 .. Len(chunks) |-> 1])

\* ------------------------------------------------------------ output lines
NdChunk(buf) == [t |-> "ndjson", lines |-> buf]
MarkFirstChunk == [t |-> "sorting_first"]
MarkLastChunk == [t |-> "sorting_last"]
OpenChunk == [t |-> "open"]          \* {\n  "full_names": [\n
MidChunk == [t |-> "mid"]            \*   ],\n  "unpaired": [\n
CloseChunk == [t |-> "close"]        \*   ]\n}\n
FinishedChunk == [t |-> "finished"]  \* # Pipeline finished. ...
EntriesChunk(buf) == [t |-> "entries", lines |-> buf]

\* ("    " if first else "    ,") + json.dumps(...) + "\n"
FullLineComma(fc, lc, isFirst) ==
    [kind |-> "full", sep |-> TRUE, first |-> fc[1], last |-> lc[1], id |-> fc[2]]
FullLine(fc, lc, isFirst) ==
    [kind |-> "full", sep |-> ~isFirst, first |-> fc[1], last |-> lc[1], id |-> fc[2]]
UnpairedFirstLineBare(fc, isFirst) ==
    [kind |-> "first", sep |-> FALSE, name |-> fc[1], id |-> fc[2]]
UnpairedFirstLine(fc, isFirst) ==
    [kind |-> "first", sep |-> ~isFirst, name |-> fc[1], id |-> fc[2]]
UnpairedLastLine(lc, isFirst) ==
    [kind |-> "last", sep |-> ~isFirst, name |-> lc[1], id |-> lc[2]]

\* Line 253: merge_full_names skips the first-name record.
SkipFirstWrong(fc, lc) == fc[2] > lc[2]
SkipFirst(fc, lc) == fc[2] < lc[2]

\* Lines 288 and 294: merge_unpaired emits the first-name / last-name record.
TakeFirstLe(fc, lc) == fc # None /\ (lc = None \/ fc[2] <= lc[2])
TakeFirst(fc, lc) == fc # None /\ (lc = None \/ fc[2] < lc[2])
TakeLast(fc, lc) == lc # None /\ (fc = None \/ lc[2] < fc[2])

\* next(iter, None) over iter_ndjson(path): the record under a cursor.
Current(file, pos) == IF pos <= Len(file) THEN Loads(file[pos]) ELSE None
first_current == Current(first_sorted, first_pos)
last_current == Current(last_sorted, last_pos)

\* ------------------------------------------------------------------- Init
\* No separate call of external_sort_ndjson.
SortIdle ==
    /\ ndjson_path = <<>>
    /\ sort_batch = 1
    /\ sort_pc = "idle"
    /\ tmpdir = "absent"
    /\ chunk = <<>>
    /\ chunk_paths = <<>>
    /\ line_no = 0
    /\ heads = <<>>
    /\ sorted_path = <<>>
    /\ sort_exc = "none"

\* The message of an InvalidInputError: its fixed text and the values of the
\* request that are formatted into it.
Message(text, prefix, item) == [text |-> text, prefix |-> prefix, item |-> item]
NoMessage == Message("", <<>>, <<>>)

\* An exception: its class, its message and the exception it wraps.
Exc(class, message, original) ==
    [class |-> class, message |-> message, original |-> original]
NoExc == Exc("none", NoMessage, "none")

\* What save_request_with_handling returns: the path (status 0) or a Response.
Result(kind, status, content) == [kind |-> kind, status |-> status, content |-> content]
NoResult == Result("none", 0, NoMessage)

\* No concurrent requests.
TwoIdle ==
    /\ fs = <<>>
    /\ reqs = <<>>

\* No request being saved.
SaveIdle ==
    /\ temp = "none"
    /\ temp_content = <<>>
    /\ s_pc = "idle"
    /\ s_fault = "none"
    /\ s_exc = NoExc
    /\ s_result = NoResult

\* No adapter.
AdaptIdle ==
    /\ sync_gen = <<>>
    /\ gen_raises = FALSE
    /\ gen_pos = 0
    /\ a_pc = "idle"
    /\ worker = "idle"
    /\ a_item = None
    /\ consumer = "idle"
    /\ delivered = <<>>
    /\ advances = 0

\* No validator.
ValIdle ==
    /\ doc = <<>>
    /\ tail = FALSE
    /\ eager = FALSE
    /\ body = <<>>
    /\ v_buffer = <<>>
    /\ seen_first_names = FALSE
    /\ seen_last_names = FALSE
    /\ vstate = "idle"
    /\ v_message = NoMessage
    /\ cut_inside_token = FALSE

\* No request in the pipeline.
PipeIdle ==
    /\ first_names = <<>>
    /\ last_names = <<>>
    /\ malformed = FALSE
    /\ batch_size = 1
    /\ present = {}
    /\ defect = "none"
    /\ pc = "idle"
    /\ atYield = FALSE
    /\ output_dir = "absent"
    /\ f_first = <<>>
    /\ f_last = <<>>
    /\ idx = 0
    /\ buffer = <<>>
    /\ first_sorted = <<>>
    /\ last_sorted = <<>>
    /\ first_pos = 1
    /\ last_pos = 1
    /\ first = TRUE
    /\ out = <<>>

\* The names keys a body can hold when its arrays have these items: a key
\* that is absent gives no item.
KeySets(a, b) ==
    {s \in SUBSET {"first_names", "last_names"} :
        /\ a # <<>> => "first_names" \in s
        /\ b # <<>> => "last_names" \in s}

Init ==
    /\ \E a \in IdSeqs(MaxFirst), b \in IdSeqs(MaxLast) :
          /\ first_names = ItemsOf(a)
          /\ last_names = ItemsOf(b)
          /\ present \in KeySets(a, b)
    /\ malformed \in BOOLEAN
    /\ defect \in (IF malformed THEN {"truncated", "syntax"} ELSE {"none"})
    /\ batch_size \in BatchSizes
    /\ pc = "start"
    /\ atYield = FALSE
    /\ output_dir = "absent"
    /\ f_first = <<>>
    /\ f_last = <<>>
    /\ idx = 0
    /\ buffer = <<>>
    /\ first_sorted = <<>>
    /\ last_sorted = <<>>
    /\ first_pos = 1
    /\ last_pos = 1
    /\ first = TRUE
    /\ out = <<>>
    /\ SortIdle
    /\ ValIdle
    /\ AdaptIdle
    /\ SaveIdle
    /\ TwoIdle

inputVars == <<first_names, last_names, malformed, batch_size, present, defect>>
mergeVars == <<first_pos, last_pos, first>>

\* Lines 82-91: mkdtemp, both paths, the input and first_names.ndjson opened.
Start ==
    /\ pc = "start"
    /\ pc' = "split_first"
    /\ output_dir' = "present"
    /\ atYield' = FALSE
    /\ idx' = 0
    /\ buffer' = <<>>
    /\ UNCHANGED <<inputVars, f_first, f_last, first_sorted, last_sorted, mergeVars, out>>
    /\ UNCHANGED offPipe

\* Lines 92-98: one item of first_names.item.
SplitFirstItem ==
    /\ pc = "split_first"
    /\ idx < Len(first_names)
    /\ LET line == Dumps(first_names[idx + 1])
           buf == Append(buffer, line)
       IN /\ f_first' = Append(f_first, line)
          /\ IF Len(buf) >= batch_size
             THEN /\ out' = Append(out, NdChunk(buf))
                  /\ buffer' = <<>>
                  /\ atYield' = TRUE
             ELSE /\ out' = out
                  /\ buffer' = buf
                  /\ atYield' = FALSE
    /\ idx' = idx + 1
    /\ UNCHANGED <<inputVars, pc, output_dir, f_last, first_sorted, last_sorted, mergeVars>>
    /\ UNCHANGED offPipe

\* The classes of the exception ijson raises on a defect. The end of the data
\* inside the document is an IncompleteJSONError with every backend; a token
\* that cannot follow is an IncompleteJSONError with yajl2_c and a JSONError
\* (an Exception, no ValueError) with the python and cffi backends.
ParserErrors(d) ==
    IF d = "truncated" THEN {"IncompleteJSONError"}
    ELSE {"IncompleteJSONError", "JSONError"}

\* An error that is dropped: the generator goes on to its last line.
AfterErrorGoOn(class) == "finished"

\* Lines 114-115: except (ValueError, IncompleteJSONError) turns the error
\* into InvalidInputError; any other class leaves the generator as it is.
AfterError(class) == IF class = "IncompleteJSONError" THEN "raised" ELSE "escaped"

\* Lines 92, 99-104, 114-115: the parser reaches the end of the file. A
\* malformed file makes ijson raise here, after the items it could complete.
SplitFirstEnd ==
    /\ pc = "split_first"
    /\ idx = Len(first_names)
    /\ IF malformed
       THEN /\ \E class \in ParserErrors(defect) : pc' = AfterError(class)
            /\ atYield' = FALSE
            /\ UNCHANGED <<out, buffer, idx>>
       ELSE /\ pc' = "split_last"
            /\ out' = IF buffer # <<>> THEN Append(out, NdChunk(buffer)) ELSE out
            /\ atYield' = (buffer # <<>>)
            /\ buffer' = <<>>
            /\ idx' = 0
    /\ UNCHANGED <<inputVars, output_dir, f_first, f_last, first_sorted, last_sorted, mergeVars>>
    /\ UNCHANGED offPipe

\* Lines 105-111: one item of last_names.item.
SplitLastItem ==
    /\ pc = "split_last"
    /\ idx < Len(last_names)
    /\ LET line == Dumps(last_names[idx + 1])
           buf == Append(buffer, line)
       IN /\ f_last' = Append(f_last, line)
          /\ IF Len(buf) >= batch_size
             THEN /\ out' = Append(out, NdChunk(buf))
                  /\ buffer' = <<>>
                  /\ atYield' = TRUE
             ELSE /\ out' = out
                  /\ buffer' = buf
                  /\ atYield' = FALSE
    /\ idx' = idx + 1
    /\ UNCHANGED <<inputVars, pc, output_dir, f_first, first_sorted, last_sorted, mergeVars>>
    /\ UNCHANGED offPipe

\* Lines 112-113.
SplitLastEnd ==
    /\ pc = "split_last"
    /\ idx = Len(last_names)
    /\ pc' = "mark_first"
    /\ out' = IF buffer # <<>> THEN Append(out, NdChunk(buffer)) ELSE out
    /\ atYield' = (buffer # <<>>)
    /\ UNCHANGED <<inputVars, output_dir, f_first, f_last, idx, buffer, first_sorted,
                   last_sorted, mergeVars>>
    /\ UNCHANGED offPipe

\* Line 118.
MarkFirst ==
    /\ pc = "mark_first"
    /\ pc' = "sort_first"
    /\ out' = Append(out, MarkFirstChunk)
    /\ atYield' = TRUE
    /\ UNCHANGED <<inputVars, output_dir, f_first, f_last, idx, buffer, first_sorted,
                   last_sorted, mergeVars>>
    /\ UNCHANGED offPipe

\* Lines 119, 121.
SortFirst ==
    /\ pc = "sort_first"
    /\ pc' = "sort_last"
    /\ first_sorted' = ExternalSort(f_first, batch_size)
    /\ out' = Append(out, MarkLastChunk)
    /\ atYield' = TRUE
    /\ UNCHANGED <<inputVars, output_dir, f_first, f_last, idx, buffer, last_sorted, mergeVars>>
    /\ UNCHANGED offPipe

\* Lines 122, 125.
SortLast ==
    /\ pc = "sort_last"
    /\ pc' = "full_start"
    /\ last_sorted' = ExternalSort(f_last, batch_size)
    /\ out' = Append(out, OpenChunk)
    /\ atYield' = TRUE
    /\ UNCHANGED <<inputVars, output_dir, f_first, f_last, idx, buffer, first_sorted, mergeVars>>
    /\ UNCHANGED offPipe

\* Lines 233-240: merge_full_names opens both cursors.
FullStart ==
    /\ pc = "full_start"
    /\ pc' = "full_loop"
    /\ first_pos' = 1
    /\ last_pos' = 1
    /\ first' = TRUE
    /\ buffer' = <<>>
    /\ atYield' = FALSE
    /\ UNCHANGED <<inputVars, output_dir, f_first, f_last, idx, first_sorted, last_sorted, out>>
    /\ UNCHANGED offPipe

\* A single-pass merge: the record that merge_full_names skips is written to
\* the same array as an unpaired entry.
FullIterOnePass ==
    /\ pc = "full_loop"
    /\ first_current # None /\ last_current # None
    /\ LET buf ==
            IF first_current[2] = last_current[2]
            THEN Append(buffer, FullLine(first_current, last_current, first))
            ELSE IF SkipFirst(first_current, last_current)
            THEN Append(buffer, UnpairedFirstLine(first_current, first))
            ELSE Append(buffer, UnpairedLastLine(last_current, first))
       IN /\ IF Len(buf) >= batch_size
             THEN /\ out' = Append(out, EntriesChunk(buf))
                  /\ buffer' = <<>>
                  /\ atYield' = TRUE
             ELSE /\ out' = out
                  /\ buffer' = buf
                  /\ atYield' = FALSE
          /\ first_pos' = IF first_current[2] <= last_current[2]
                          THEN first_pos + 1 ELSE first_pos
          /\ last_pos' = IF first_current[2] >= last_current[2]
                         THEN last_pos + 1 ELSE last_pos
          /\ first' = FALSE
    /\ UNCHANGED <<inputVars, pc, output_dir, f_first, f_last, idx, first_sorted, last_sorted>>
    /\ UNCHANGED offPipe

\* Lines 242-256: one iteration of the loop of merge_full_names.
FullIter ==
    /\ pc = "full_loop"
    /\ first_current # None /\ last_current # None
    /\ IF first_current[2] = last_current[2]
       THEN LET buf == Append(buffer, FullLine(first_current, last_current, first))
            IN /\ IF Len(buf) >= batch_size
                  THEN /\ out' = Append(out, EntriesChunk(buf))
                       /\ buffer' = <<>>
                       /\ atYield' = TRUE
                  ELSE /\ out' = out
                       /\ buffer' = buf
                       /\ atYield' = FALSE
               /\ first_pos' = first_pos + 1
               /\ last_pos' = last_pos + 1
               /\ first' = FALSE
       ELSE /\ IF SkipFirst(first_current, last_current)
               THEN first_pos' = first_pos + 1 /\ last_pos' = last_pos
               ELSE last_pos' = last_pos + 1 /\ first_pos' = first_pos
            /\ atYield' = FALSE
            /\ UNCHANGED <<out, buffer, first>>
    /\ UNCHANGED <<inputVars, pc, output_dir, f_first, f_last, idx, first_sorted, last_sorted>>
    /\ UNCHANGED offPipe

\* Lines 258-259, then line 127.
FullEnd ==
    /\ pc = "full_loop"
    /\ first_current = None \/ last_current = None
    /\ IF buffer # <<>>
       THEN /\ out' = Append(out, EntriesChunk(buffer))
            /\ pc' = "mid"
            /\ atYield' = TRUE
       ELSE /\ out' = Append(out, MidChunk)
            /\ pc' = "unpaired_start"
            /\ atYield' = TRUE
    /\ UNCHANGED <<inputVars, output_dir, f_first, f_last, idx, buffer, first_sorted,
                   last_sorted, mergeVars>>
    /\ UNCHANGED offPipe

\* Line 127, resumed after the last chunk of merge_full_names.
Mid ==
    /\ pc = "mid"
    /\ pc' = "unpaired_start"
    /\ out' = Append(out, MidChunk)
    /\ atYield' = TRUE
    /\ UNCHANGED <<inputVars, output_dir, f_first, f_last, idx, buffer, first_sorted,
                   last_sorted, mergeVars>>
    /\ UNCHANGED offPipe

\* Lines 278-285: merge_unpaired opens both cursors.
UnpairedStart ==
    /\ pc = "unpaired_start"
    /\ pc' = "unpaired_loop"
    /\ first_pos' = 1
    /\ last_pos' = 1
    /\ first' = TRUE
    /\ buffer' = <<>>
    /\ atYield' = FALSE
    /\ UNCHANGED <<inputVars, output_dir, f_first, f_last, idx, first_sorted, last_sorted, out>>
    /\ UNCHANGED offPipe

\* An iteration that advances no cursor when both heads have one id.
UnpairedIterStall ==
    /\ pc = "unpaired_loop"
    /\ first_current # None \/ last_current # None
    /\ LET takeFirst == TakeFirst(first_current, last_current)
           takeLast == ~takeFirst /\ TakeLast(first_current, last_current)
           buf == IF takeFirst THEN Append(buffer, UnpairedFirstLine(first_current, first))
                  ELSE IF takeLast THEN Append(buffer, UnpairedLastLine(last_current, first))
                  ELSE buffer
       IN /\ first_pos' = IF takeFirst THEN first_pos + 1 ELSE first_pos
          /\ last_pos' = IF takeLast THEN last_pos + 1 ELSE last_pos
          /\ first' = IF takeFirst \/ takeLast THEN FALSE ELSE first
          /\ IF Len(buf) >= batch_size
             THEN /\ out' = Append(out, EntriesChunk(buf))
                  /\ buffer' = <<>>
                  /\ atYield' = TRUE
             ELSE /\ out' = out
                  /\ buffer' = buf
                  /\ atYield' = FALSE
    /\ UNCHANGED <<inputVars, pc, output_dir, f_first, f_last, idx, first_sorted, last_sorted>>
    /\ UNCHANGED offPipe

\* Lines 287-306: one iteration of the loop of merge_unpaired.
UnpairedIter ==
    /\ pc = "unpaired_loop"
    /\ first_current # None \/ last_current # None
    /\ LET takeFirst == TakeFirst(first_current, last_current)
           takeLast == ~takeFirst /\ TakeLast(first_current, last_current)
           buf == IF takeFirst THEN Append(buffer, UnpairedFirstLine(first_current, first))
                  ELSE IF takeLast THEN Append(buffer, UnpairedLastLine(last_current, first))
                  ELSE buffer
       IN /\ first_pos' = IF takeFirst \/ ~takeLast THEN first_pos + 1 ELSE first_pos
          /\ last_pos' = IF takeLast \/ ~takeFirst THEN last_pos + 1 ELSE last_pos
          /\ first' = IF takeFirst \/ takeLast THEN FALSE ELSE first
          /\ IF Len(buf) >= batch_size
             THEN /\ out' = Append(out, EntriesChunk(buf))
                  /\ buffer' = <<>>
                  /\ atYield' = TRUE
             ELSE /\ out' = out
                  /\ buffer' = buf
                  /\ atYield' = FALSE
    /\ UNCHANGED <<inputVars, pc, output_dir, f_first, f_last, idx, first_sorted, last_sorted>>
    /\ UNCHANGED offPipe

\* Lines 308-309, then line 129.
UnpairedEnd ==
    /\ pc = "unpaired_loop"
    /\ first_current = None /\ last_current = None
    /\ IF buffer # <<>>
       THEN /\ out' = Append(out, EntriesChunk(buffer))
            /\ pc' = "close"
       ELSE /\ out' = Append(out, CloseChunk)
            /\ pc' = "finished"
    /\ atYield' = TRUE
    /\ UNCHANGED <<inputVars, output_dir, f_first, f_last, idx, buffer, first_sorted,
                   last_sorted, mergeVars>>
    /\ UNCHANGED offPipe

\* Line 129, resumed after the last chunk of merge_unpaired.
Close ==
    /\ pc = "close"
    /\ pc' = "finished"
    /\ out' = Append(out, CloseChunk)
    /\ atYield' = TRUE
    /\ UNCHANGED <<inputVars, output_dir, f_first, f_last, idx, buffer, first_sorted,
                   last_sorted, mergeVars>>
    /\ UNCHANGED offPipe

\* Line 131.
Finished ==
    /\ pc = "finished"
    /\ pc' = "return"
    /\ out' = Append(out, FinishedChunk)
    /\ atYield' = TRUE
    /\ UNCHANGED <<inputVars, output_dir, f_first, f_last, idx, buffer, first_sorted,
                   last_sorted, mergeVars>>
    /\ UNCHANGED offPipe

\* The generator returns: StopIteration reaches the consumer.
Return ==
    /\ pc = "return"
    /\ pc' = "done"
    /\ atYield' = FALSE
    /\ UNCHANGED <<inputVars, output_dir, f_first, f_last, idx, buffer, first_sorted,
                   last_sorted, mergeVars, out>>
    /\ UNCHANGED offPipe

\* The consumer drops the stream: generator.close() at the yield it is
\* suspended on (or before its first advance). No handler of the generator
\* runs but the `with` blocks closing the files.
Drop ==
    /\ atYield \/ pc = "start"
    /\ pc' = "closed"
    /\ atYield' = FALSE
    /\ UNCHANGED <<inputVars, output_dir, f_first, f_last, idx, buffer, first_sorted,
                   last_sorted, mergeVars, out>>
    /\ UNCHANGED offPipe

Terminated == pc \in {"done", "raised", "escaped", "closed"}

Next ==
    \/ Start
    \/ SplitFirstItem
    \/ SplitFirstEnd
    \/ SplitLastItem
    \/ SplitLastEnd
    \/ MarkFirst
    \/ SortFirst
    \/ SortLast
    \/ FullStart
    \/ FullIter
    \/ FullEnd
    \/ Mid
    \/ UnpairedStart
    \/ UnpairedIter
    \/ UnpairedEnd
    \/ Close
    \/ Finished
    \/ Return
    \/ Drop

Spec == Init /\ [][Next]_vars

\* The consumer pulls chunk after chunk and never closes the generator: every
\* step but Drop, and the generator is resumed whenever it can go on.
NextPulled ==
    \/ Start
    \/ SplitFirstItem
    \/ SplitFirstEnd
    \/ SplitLastItem
    \/ SplitLastEnd
    \/ MarkFirst
    \/ SortFirst
    \/ SortLast
    \/ FullStart
    \/ FullIter
    \/ FullEnd
    \/ Mid
    \/ UnpairedStart
    \/ UnpairedIter
    \/ UnpairedEnd
    \/ Close
    \/ Finished
    \/ Return

\* The steps of NextPulled but the two calls of external_sort_ndjson.
PulledStep ==
    \/ Start
    \/ SplitFirstItem
    \/ SplitFirstEnd
    \/ SplitLastItem
    \/ SplitLastEnd
    \/ MarkFirst
    \/ FullStart
    \/ FullIter
    \/ FullEnd
    \/ Mid
    \/ UnpairedStart
    \/ UnpairedIter
    \/ UnpairedEnd
    \/ Close
    \/ Finished
    \/ Return

\* Lines 119, 122: a call of external_sort_ndjson is enabled exactly while the
\* generator stands at it.
AtSort == pc \in {"sort_first", "sort_last"}

\* WF_vars(SortFirst \/ SortLast), with its ENABLED written as AtSort: the
\* sorter, a loop over a finite file, returns.
SortReturns == []<>(~AtSort) \/ []<><<SortFirst \/ SortLast>>_vars

SpecPulled == Init /\ [][NextPulled]_vars /\ WF_vars(PulledStep) /\ SortReturns

\* A status taken from the way the generator ended, were it sent last.
ResponseStatusOfEnd ==
    IF pc = "raised" THEN 400
    ELSE IF pc = "escaped" THEN 500
    ELSE IF out # <<>> THEN 200
    ELSE 0

\* combine_names, lines 100-116: the status of the response. The handler
\* advances the generator once: a first chunk makes the response a 200 stream
\* whatever follows; InvalidInputError before any chunk is answered with 400
\* and e.message; another exception before any chunk is the framework's 500.
\* 0: no status yet.
ResponseStatus ==
    IF out # <<>> THEN 200
    ELSE IF pc = "raised" THEN 400
    ELSE IF pc = "escaped" THEN 500
    ELSE 0

\* C11: a truncated body is answered with 400, however many complete items
\* precede the truncation point.
C11_TruncatedGives400 ==
    defect = "truncated" /\ pc = "raised" => ResponseStatus = 400

\* C12: a well-formed body with neither first_names nor last_names is never
\* answered with 200.
C12_NoNamesKeyGives400 ==
    present = {} /\ ~malformed => ResponseStatus # 200

\* C13: on a malformed or truncated file the generator, consumed to its end,
\* ends by raising InvalidInputError.
C13_MalformedRaisesInvalidInput ==
    malformed /\ pc \in {"done", "raised", "escaped"} => pc = "raised"

\* ======================================================== properties: Spec
Count(S) == Cardinality(S)
Min(a, b) == IF a <= b THEN a ELSE b

\* The entry lines of the chunks yielded so far, in emission order.
RECURSIVE EntryLines(_)
EntryLines(o) ==
    IF o = <<>> THEN <<>>
    ELSE IF o[1].t = "entries" THEN o[1].lines \o EntryLines(Tail(o))
    ELSE EntryLines(Tail(o))

UsesFirst(l, rec) ==
    \/ l.kind = "full" /\ l.first = rec[1] /\ l.id = rec[2]
    \/ l.kind = "first" /\ l.name = rec[1] /\ l.id = rec[2]
UsesLast(l, rec) ==
    \/ l.kind = "full" /\ l.last = rec[1] /\ l.id = rec[2]
    \/ l.kind = "last" /\ l.name = rec[1] /\ l.id = rec[2]
IsFirstRecord(rec) == \E i \in DOMAIN first_names : first_names[i] = rec
IsLastRecord(rec) == \E j \in DOMAIN last_names : last_names[j] = rec

\* C1: once the generator is exhausted on a valid input, every first-name
\* record is used by exactly one entry (a full_names entry or an unpaired
\* {first, id} entry), every last-name record likewise, and every entry is
\* made of records of the input.
C1_EveryRecordOnce ==
    pc = "done" =>
        LET L == EntryLines(out)
        IN /\ \A i \in DOMAIN first_names :
                 Count({k \in DOMAIN L : UsesFirst(L[k], first_names[i])}) = 1
           /\ \A j \in DOMAIN last_names :
                 Count({k \in DOMAIN L : UsesLast(L[k], last_names[j])}) = 1
           /\ \A k \in DOMAIN L :
                 /\ L[k].kind = "full" =>
                       /\ IsFirstRecord(<<L[k].first, L[k].id>>)
                       /\ IsLastRecord(<<L[k].last, L[k].id>>)
                 /\ L[k].kind = "first" => IsFirstRecord(<<L[k].name, L[k].id>>)
                 /\ L[k].kind = "last" => IsLastRecord(<<L[k].name, L[k].id>>)
           /\ Count({k \in DOMAIN L : L[k].kind = "full"}) * 2
              + Count({k \in DOMAIN L : L[k].kind # "full"})
              = Len(first_names) + Len(last_names)

\* A shuffled input with a paired entry and an unpaired entry of each side.
C1_Witness ==
    /\ pc = "done"
    /\ \E i \in DOMAIN first_names : i > 1 /\ first_names[i][2] < first_names[i - 1][2]
    /\ LET L == EntryLines(out)
       IN /\ \E k \in DOMAIN L : L[k].kind = "full"
          /\ \E k \in DOMAIN L : L[k].kind = "first"
          /\ \E k \in DOMAIN L : L[k].kind = "last"

NumFirst(k) == Count({i \in DOMAIN first_names : first_names[i][2] = k})
NumLast(k) == Count({j \in DOMAIN last_names : last_names[j][2] = k})
NumLines(L, kind, k) == Count({x \in DOMAIN L : L[x].kind = kind /\ L[x].id = k})

\* C2: an id that occurs f times among the first names and l times among the
\* last names gives min(f, l) full_names entries, f - min(f, l) unpaired
\* first entries and l - min(f, l) unpaired last entries.
C2_PairingPolicy ==
    pc = "done" =>
        LET L == EntryLines(out)
        IN \A k \in Ids :
              LET m == Min(NumFirst(k), NumLast(k))
              IN /\ NumLines(L, "full", k) = m
                 /\ NumLines(L, "first", k) = NumFirst(k) - m
                 /\ NumLines(L, "last", k) = NumLast(k) - m

\* An id with a surplus on the first side, and an id only the last side has.
C2_Witness ==
    /\ pc = "done"
    /\ \E k \in Ids : NumFirst(k) >= 2 /\ NumLast(k) >= 1 /\ NumFirst(k) > NumLast(k)
    /\ \E k \in Ids : NumLast(k) >= 1 /\ NumFirst(k) = 0

\* Where the chunk t is in the stream.
Positions(t) == {k \in DOMAIN out : out[k].t = t}
SepsRight(L) == \A k \in DOMAIN L : L[k].sep = (k > 1)

\* C4 as claimed: the body is the envelope alone, nothing before its opening
\* brace and nothing after its closing brace.
C4_OnlyEnvelope ==
    pc = "done" => out[1] = OpenChunk /\ out[Len(out)] = CloseChunk

\* C4 as amended: the stream holds the opening, middle and closing chunk of
\* the envelope once each, in this order; from the opening to the closing
\* chunk it is one JSON object (full_names entries, then unpaired entries,
\* a comma before every entry of an array but the first); before it come
\* only the NDJSON lines of the split and the two sorting markers, after it
\* only the finished marker.
C4_EnvelopeFramed ==
    pc = "done" =>
        \E o, m, c \in DOMAIN out :
            /\ Positions("open") = {o}
            /\ Positions("mid") = {m}
            /\ Positions("close") = {c}
            /\ o < m /\ m < c
            /\ \A k \in 1 .. o - 1 : out[k].t \in {"ndjson", "sorting_first", "sorting_last"}
            /\ \A k \in o + 1 .. m - 1 : out[k].t = "entries"
            /\ \A k \in m + 1 .. c - 1 : out[k].t = "entries"
            /\ c + 1 = Len(out) /\ out[Len(out)] = FinishedChunk
            /\ LET P == EntryLines(SubSeq(out, o, m))
                   U == EntryLines(SubSeq(out, m, c))
               IN /\ \A k \in DOMAIN P : P[k].kind = "full"
                  /\ \A k \in DOMAIN U : U[k].kind \in {"first", "last"}
                  /\ SepsRight(P)
                  /\ SepsRight(U)

\* NDJSON lines precede the envelope, full_names holds an entry and unpaired
\* two, in chunks of one entry.
C4_Witness ==
    /\ pc = "done"
    /\ batch_size = 1
    /\ out[1].t = "ndjson"
    /\ Count({k \in DOMAIN EntryLines(out) : EntryLines(out)[k].kind = "full"}) >= 1
    /\ Count({k \in DOMAIN EntryLines(out) : EntryLines(out)[k].kind # "full"}) >= 2

\* C5: in the stream, no full_names entry comes after an unpaired entry.
C5_PairedBeforeUnpaired ==
    LET L == EntryLines(out)
    IN \A a, b \in DOMAIN L : L[a].kind # "full" /\ L[b].kind = "full" => b < a

\* The unpaired section has begun after a paired section of several chunks,
\* on an input where merge_full_names skipped a record.
C5_Witness ==
    /\ pc = "unpaired_loop"
    /\ batch_size = 1
    /\ LET L == EntryLines(out)
       IN /\ Count({k \in DOMAIN L : L[k].kind = "full"}) >= 2
          /\ \E k \in DOMAIN L : L[k].kind # "full"
    /\ first_sorted[1].i < last_sorted[1].i

\* The entries of one array, in emission order.
FullEntries == SelectSeq(EntryLines(out), LAMBDA l : l.kind = "full")
UnpairedEntries == SelectSeq(EntryLines(out), LAMBDA l : l.kind # "full")
IdsAscend(L) == \A a, b \in DOMAIN L : a < b => L[a].id <= L[b].id

\* C22: on a valid input, in whatever order the request holds its records,
\* the ids of the full_names entries emitted so far never decrease, and the
\* ids of the unpaired entries emitted so far, both sides taken together,
\* never decrease.
C22_EntriesAscend ==
    ~malformed => IdsAscend(FullEntries) /\ IdsAscend(UnpairedEntries)

\* A request whose first names come in descending id order somewhere, of
\* which two ids are paired and one record is left unpaired.
C22_Witness ==
    /\ pc = "done"
    /\ ~malformed
    /\ \E i \in DOMAIN first_names : i > 1 /\ first_names[i][2] < first_names[i - 1][2]
    /\ \E i \in DOMAIN last_names : i > 1 /\ last_names[i][2] < last_names[i - 1][2]
    /\ Len(FullEntries) >= 2
    /\ FullEntries[1].id < FullEntries[Len(FullEntries)].id
    /\ UnpairedEntries # <<>>

\* C25: when the generator has failed after a chunk was delivered, the status
\* is the 200 already sent, the stream holds no byte of the envelope's
\* closing (nor any of the envelope), and the generator takes no further
\* step, so nothing is delivered after the failure.
C25_FailureTruncates ==
    pc \in {"raised", "escaped"} /\ out # <<>> =>
        /\ ResponseStatus = 200
        /\ Positions("close") = {}
        /\ \A k \in DOMAIN out : out[k].t = "ndjson"
        /\ ~ENABLED Next

\* The parser failed after two chunks of NDJSON lines had been delivered.
C25_Witness ==
    /\ pc = "raised"
    /\ Len(out) >= 2
    /\ idx > Len(out[1].lines)

\* The entry lines yielded since the chunk t, up to the next chunk that
\* holds no entries.
RECURSIVE LeadingEntries(_)
LeadingEntries(o) ==
    IF o = <<>> \/ o[1].t # "entries" THEN <<>>
    ELSE o[1].lines \o LeadingEntries(Tail(o))
ArrayLines(t) ==
    IF Positions(t) = {} THEN <<>>
    ELSE LET k == CHOOSE x \in Positions(t) : TRUE
         IN LeadingEntries(SubSeq(out, k + 1, Len(out)))
NumSeps(L) == Count({k \in DOMAIN L : L[k].sep})

\* C27: at every point of the stream, in each of the two arrays the first
\* element has no separator and every other element has one before it, so n
\* elements come with max(0, n - 1) separators, within a chunk and across
\* chunks; an array without elements has nothing between its brackets.
C27_Separators ==
    \A t \in {"open", "mid"} :
        LET L == ArrayLines(t)
        IN /\ SepsRight(L)
           /\ NumSeps(L) = (IF L = <<>> THEN 0 ELSE Len(L) - 1)
           /\ \A k \in Positions(t) :
                 k < Len(out) => out[k + 1].t \in {"entries", "mid", "close"}
           /\ \A k \in DOMAIN out :
                 out[k].t = "entries" => out[k].lines # <<>>

\* full_names holds two elements in two chunks, unpaired holds one, and
\* the envelope is closed.
C27_Witness ==
    /\ pc = "done"
    /\ batch_size = 1
    /\ Len(ArrayLines("open")) = 2
    /\ Len(ArrayLines("mid")) = 1
    /\ NumSeps(ArrayLines("open")) = 1

\* C32: the finished marker is in the stream only when the split of both
\* arrays, both sorts, both sections and the closing of the envelope are
\* done without an error, and then it is the last chunk and comes once; a
\* generator consumed to its end on a valid input has yielded it; a run that
\* failed never has.
C32_FinishedMarker ==
    /\ Positions("finished") # {} =>
          /\ Positions("finished") = {Len(out)}
          /\ pc \in {"return", "done", "closed"}
          /\ ~malformed
          /\ Len(f_first) = Len(first_names) /\ Len(f_last) = Len(last_names)
          /\ first_sorted = ExternalSort(f_first, batch_size)
          /\ last_sorted = ExternalSort(f_last, batch_size)
          /\ first_current = None /\ last_current = None
          /\ Positions("sorting_first") # {} /\ Positions("sorting_last") # {}
          /\ Positions("open") # {} /\ Positions("mid") # {}
          /\ Positions("close") = {Len(out) - 1}
    /\ pc = "done" => Positions("finished") # {}
    /\ pc \in {"raised", "escaped"} \/ malformed => Positions("finished") = {}

\* A request with names on both sides was streamed to its end.
C32_Witness ==
    /\ pc = "done"
    /\ out[Len(out)] = FinishedChunk
    /\ Len(first_names) >= 2
    /\ Len(last_names) >= 1
    /\ Len(out) >= 8

\* C33: under a consumer that keeps pulling, the generator on a valid input
\* returns after finitely many chunks, and every iteration of the loop of
\* merge_full_names and of merge_unpaired moves at least one of the two
\* cursors forward and none backward.
C33_Terminates ==
    /\ ~malformed ~> pc = "done"
    /\ [][(pc \in {"full_loop", "unpaired_loop"} /\ pc' = pc) =>
              /\ first_pos' >= first_pos
              /\ last_pos' >= last_pos
              /\ first_pos' + last_pos' > first_pos + last_pos]_vars

\* The generator has returned on a request whose merges met equal, smaller
\* and larger head ids: an entry of each kind was emitted.
C33_Witness ==
    /\ pc = "done"
    /\ ~malformed
    /\ \E k \in DOMAIN EntryLines(out) : EntryLines(out)[k].kind = "full"
    /\ \E k \in DOMAIN EntryLines(out) : EntryLines(out)[k].kind = "first"
    /\ \E k \in DOMAIN EntryLines(out) : EntryLines(out)[k].kind = "last"
    /\ Len(first_names) + Len(last_names) = 5

\* C6: once the pipeline has terminated (exhausted, raised, or closed by the
\* consumer), its workspace directory is gone.
C6_WorkspaceGone ==
    Terminated => output_dir # "present"

\* ------------------------------------------- external_sort_ndjson, stepwise
\* An intermediate file: its k-th line is [k, id]; where the id is 0 it is
\* blank, where -1 no JSON, where -2 a JSON number.
LinesOf(ids) ==
    [k \in 1 .. Len(ids) |->
        IF ids[k] = 0 THEN Blank
        ELSE IF ids[k] = -1 THEN NotJsonLine
        ELSE IF ids[k] = -2 THEN ScalarLine
        ELSE Dumps(<<k, ids[k]>>)]
LineSeqs(n) == UNION {[1 .. k -> Ids \cup {0, -1, -2}] : k \in 0 .. n}

\* Line 155: an exception leaves the `with` block, which removes the chunk
\* directory and the chunk files in it.
SortRaise(class) ==
    /\ sort_pc' = "raised"
    /\ sort_exc' = class
    /\ tmpdir' = "removed"
    /\ chunk_paths' = <<>>

InitSort ==
    /\ PipeIdle
    /\ ValIdle
    /\ AdaptIdle
    /\ SaveIdle
    /\ TwoIdle
    /\ \E a \in LineSeqs(MaxLines) : ndjson_path = LinesOf(a)
    /\ sort_batch \in BatchSizes
    /\ sort_pc = "call"
    /\ tmpdir = "absent"
    /\ chunk = <<>>
    /\ chunk_paths = <<>>
    /\ line_no = 0
    /\ heads = <<>>
    /\ sorted_path = <<>>
    /\ sort_exc = "none"

\* Lines 152-160: the chunk directory is made and the input opened.
SortOpen ==
    /\ sort_pc = "call"
    /\ sort_pc' = "chunking"
    /\ tmpdir' = "present"
    /\ chunk' = <<>>
    /\ chunk_paths' = <<>>
    /\ line_no' = 0
    /\ UNCHANGED <<ndjson_path, sort_batch, heads, sorted_path, sort_exc>>
    /\ UNCHANGED offSort

\* Lines 161-174: one line of the input.
SortReadLine ==
    /\ sort_pc = "chunking"
    /\ line_no < Len(ndjson_path)
    /\ line_no' = line_no + 1
    /\ LET line == ndjson_path[line_no + 1]
           c == Append(chunk, Loads(line))
       IN IF line = Blank
          THEN UNCHANGED <<chunk, chunk_paths, sort_pc, tmpdir, sort_exc>>
          ELSE IF ~Decodes(line)
          THEN SortRaise("JSONDecodeError") /\ UNCHANGED chunk
          ELSE IF BatchFull(c, sort_batch)
               THEN IF Keyed(c)
                    THEN /\ chunk_paths' = Append(chunk_paths, ChunkFile(c))
                         /\ chunk' = <<>>
                         /\ UNCHANGED <<sort_pc, tmpdir, sort_exc>>
                    ELSE SortRaise("TypeError") /\ chunk' = c
               ELSE /\ chunk' = c
                    /\ UNCHANGED <<chunk_paths, sort_pc, tmpdir, sort_exc>>
    /\ UNCHANGED <<ndjson_path, sort_batch, heads, sorted_path>>
    /\ UNCHANGED offSort

\* Lines 175-192: the residual batch, then a reader over every chunk file.
SortReadEnd ==
    /\ sort_pc = "chunking"
    /\ line_no = Len(ndjson_path)
    /\ IF Keyed(chunk)
       THEN /\ sort_pc' = "merging"
            /\ chunk_paths' = IF chunk # <<>> THEN Append(chunk_paths, ChunkFile(chunk))
                              ELSE chunk_paths
            /\ heads' = [c \in 1 .. Len(chunk_paths') |-> 1]
            /\ UNCHANGED <<tmpdir, sort_exc>>
       ELSE SortRaise("TypeError") /\ UNCHANGED heads
    /\ sorted_path' = <<>>
    /\ UNCHANGED <<ndjson_path, sort_batch, chunk, line_no>>
    /\ UNCHANGED offSort

\* Lines 195-197: one record of the merge.
SortMergeStep ==
    /\ sort_pc = "merging"
    /\ LiveChunks(chunk_paths, heads) # {}
    /\ LET c == MergePick(chunk_paths, heads)
       IN /\ sorted_path' = Append(sorted_path, Dumps(Loads(chunk_paths[c][heads[c]])))
          /\ heads' = [heads EXCEPT ![c] = @ + 1]
    /\ UNCHANGED <<ndjson_path, sort_batch, sort_pc, tmpdir, chunk, chunk_paths, line_no,
                   sort_exc>>
    /\ UNCHANGED offSort

\* Lines 155, 199: the merge is exhausted, the chunk directory removed with
\* the chunk files in it, the sorted path returned.
SortReturn ==
    /\ sort_pc = "merging"
    /\ LiveChunks(chunk_paths, heads) = {}
    /\ sort_pc' = "returned"
    /\ tmpdir' = "removed"
    /\ chunk_paths' = <<>>
    /\ heads' = <<>>
    /\ UNCHANGED <<ndjson_path, sort_batch, chunk, line_no, sorted_path, sort_exc>>
    /\ UNCHANGED offSort

NextSort ==
    \/ SortOpen
    \/ SortReadLine
    \/ SortReadEnd
    \/ SortMergeStep
    \/ SortReturn

SpecSort == InitSort /\ [][NextSort]_vars

\* The records the merge has read from the chunk file c, and those of them
\* it has written to the sorted file.
ReadFrom(c) == IF heads[c] <= Len(chunk_paths[c]) THEN heads[c] ELSE Len(chunk_paths[c])
WrittenFrom(c) ==
    Cardinality({k \in DOMAIN sorted_path :
                    \E j \in DOMAIN chunk_paths[c] : chunk_paths[c][j] = sorted_path[k]})

\* C26: the batch in memory never holds more than batch_size records, a
\* chunk file holds from 1 to batch_size records, and the merge holds at
\* most one record of each chunk file that it has read and not yet written.
C26_MemoryBound ==
    /\ Len(chunk) <= sort_batch
    /\ sort_pc = "chunking" => Len(chunk) < sort_batch
    /\ \A c \in DOMAIN chunk_paths :
          Len(chunk_paths[c]) >= 1 /\ Len(chunk_paths[c]) <= sort_batch
    /\ sort_pc = "merging" =>
          \A c \in DOMAIN chunk_paths : ReadFrom(c) - WrittenFrom(c) \in {0, 1}

\* The merge under way over a full chunk file and a residual one.
C26_Witness ==
    /\ sort_pc = "merging"
    /\ sort_batch = 2
    /\ Len(chunk_paths) = 2
    /\ Len(chunk_paths[1]) = 2
    /\ Len(chunk_paths[2]) = 1
    /\ Len(sorted_path) = 1
    /\ heads[2] = 2

\* convert_to_ndjson_stream, lines 119 and 122: external_sort_ndjson is called
\* after the try of lines 87-115 has ended, so what it raises leaves the
\* generator as the exception it is.
LeavesPipeline(class) == class

\* C21: a malformed line met by the sorter reaches the caller of the pipeline
\* as InvalidInputError.
C21_BadLineIsInvalidInput ==
    sort_pc = "raised" => LeavesPipeline(sort_exc) = "InvalidInputError"

\* ------------------------------------------------------ StreamingValidator
\* A request body, as the JSON value it spells when it is complete: an object
\* of members [key, value]; a value is an array of items or a number; an item
\* is an array of elements or a number; an element is a string, a number, a
\* null (or boolean) or an empty array.
ElemKinds == {"string", "number", "null", "array"}
Keys == {"first_names", "last_names", "other"}
ElemSeqs(n) == UNION {[1 .. k -> ElemKinds] : k \in 0 .. n}
ArrayItem(elems) == [arr |-> TRUE, elems |-> elems]
ScalarItem == [arr |-> FALSE, elems |-> <<>>]
GoodItem == ArrayItem(<<"string", "number">>)
ArrayValue(items) == [arr |-> TRUE, items |-> items]
ScalarValue == [arr |-> FALSE, items |-> <<>>]
Goods == {<<>>, <<GoodItem>>}
\* An item whose second element is a number with a fraction, as 1.5.
DoubleItem == ArrayItem(<<"string", "double">>)
ProbeItems == {ArrayItem(e) : e \in ElemSeqs(MaxElems)} \cup {ScalarItem, DoubleItem}
SimpleValues == {ScalarValue} \cup {ArrayValue(g) : g \in Goods}
ProbeValues == {ArrayValue(g \o <<p>>) : g \in Goods, p \in ProbeItems}
Member(k, v) == [key |-> k, value |-> v]
\* Bodies of up to two members whose items are all [string, number] ...
SimpleDocs ==
    {<<>>}
    \cup {<<Member(k, v)>> : k \in Keys, v \in SimpleValues}
    \cup {<<Member(k[1], v[1]), Member(k[2], v[2])>> :
             k \in Keys \X Keys, v \in SimpleValues \X SimpleValues}
\* ... and bodies whose first_names array ends with an arbitrary item.
ProbeDocs == {<<Member("first_names", v)>> : v \in ProbeValues}
Docs == SimpleDocs \cup ProbeDocs

\* The bytes of a body. A string, a number or a literal takes two bytes, so
\* that a chunk can end inside it; the rest takes one byte each.
RECURSIVE Join(_, _)
Join(parts, sepr) ==
    IF parts = <<>> THEN <<>>
    ELSE IF Len(parts) = 1 THEN parts[1]
    ELSE parts[1] \o sepr \o Join(Tail(parts), sepr)
ElemBytes(kind) ==
    CASE kind = "string" -> <<"str", "quote">>
      [] kind = "number" -> <<"d", "d">>
      [] kind = "double" -> <<"d", "f">>
      [] kind = "null" -> <<"nu", "ll">>
      [] kind = "array" -> <<"[", "]">>
ItemBytes(item) ==
    IF item.arr
    THEN <<"[">> \o Join([k \in DOMAIN item.elems |-> ElemBytes(item.elems[k])], <<",">>)
         \o <<"]">>
    ELSE <<"d", "d">>
ValueBytes(value) ==
    IF value.arr
    THEN <<"[">> \o Join([k \in DOMAIN value.items |-> ItemBytes(value.items[k])], <<",">>)
         \o <<"]">>
    ELSE <<"d", "d">>
MemberBytes(m) == <<m.key, "quote", ":">> \o ValueBytes(m.value)
DocBytes(d) ==
    <<"{">> \o Join([k \in DOMAIN d |-> MemberBytes(d[k])], <<",">>) \o <<"}">>

\* ijson's lexer over the bytes read so far. A string or literal cut by the
\* end of the data is no token yet; a number cut there is a (shorter) number.
Tok(t, s) == [t |-> t, s |-> s]
RECURSIVE Lex(_, _)
Lex(b, i) ==
    IF i > Len(b) THEN <<>>
    ELSE IF b[i] \in {"{", "}", "[", "]", ",", ":"} THEN <<Tok(b[i], "")>> \o Lex(b, i + 1)
    ELSE IF b[i] \in Keys \cup {"str"}
         THEN IF i < Len(b) /\ b[i + 1] = "quote"
              THEN <<Tok("string", b[i])>> \o Lex(b, i + 2)
              ELSE <<Tok("partial", "")>>
    ELSE IF b[i] = "d"
         THEN IF i < Len(b) /\ b[i + 1] \in {"d", "f"}
              THEN <<Tok("number", "")>> \o Lex(b, i + 2)
              ELSE <<Tok("number", "")>> \o Lex(b, i + 1)
    ELSE IF b[i] = "nu" /\ i < Len(b) /\ b[i + 1] = "ll"
         THEN <<Tok("null", "")>> \o Lex(b, i + 2)
    ELSE <<Tok("partial", "")>>

\* ijson.parse: the (prefix, event) pairs of the tokens, and how the parse
\* ends: "none" (a complete document), "eof" (the data ends inside the
\* document: IncompleteJSONError) or "syntax" (a token that cannot follow:
\* JSONError). The prefix is the path, joined by dots in ijson.
Ev(prefix, event) == [prefix |-> prefix, event |-> event]
Pop(s) == SubSeq(s, 1, Len(s) - 1)
AfterValue(stack) == IF stack = <<>> THEN "done" ELSE "comma_or_end"
RECURSIVE ParseFrom(_, _, _, _, _, _)
ParseFrom(toks, i, stack, exp, path, events) ==
    IF i > Len(toks)
    THEN [events |-> events, error |-> IF exp = "done" THEN "none" ELSE "eof"]
    ELSE LET t == toks[i].t
             stop(e) == [events |-> events, error |-> e]
             value ==
                IF t = "{"
                THEN ParseFrom(toks, i + 1, Append(stack, "map"), "key_or_end",
                               Append(path, "?"), Append(events, Ev(path, "start_map")))
                ELSE IF t = "["
                THEN ParseFrom(toks, i + 1, Append(stack, "array"), "value_or_end",
                               Append(path, "item"), Append(events, Ev(path, "start_array")))
                ELSE IF t \in {"string", "number", "null"}
                THEN ParseFrom(toks, i + 1, stack, AfterValue(stack), path,
                               Append(events, Ev(path, t)))
                ELSE stop("syntax")
             endArray ==
                ParseFrom(toks, i + 1, Pop(stack), AfterValue(Pop(stack)), Pop(path),
                          Append(events, Ev(Pop(path), "end_array")))
             endMap ==
                ParseFrom(toks, i + 1, Pop(stack), AfterValue(Pop(stack)), Pop(path),
                          Append(events, Ev(Pop(path), "end_map")))
             key ==
                ParseFrom(toks, i + 1, stack, "colon",
                          Append(Pop(path), toks[i].s),
                          Append(events, Ev(Pop(path), "map_key")))
         IN IF t = "partial" THEN stop("eof")
            ELSE IF exp = "done" THEN stop("syntax")
            ELSE IF exp = "value" THEN value
            ELSE IF exp = "value_or_end" THEN IF t = "]" THEN endArray ELSE value
            ELSE IF exp = "key_or_end"
                 THEN IF t = "}" THEN endMap
                      ELSE IF t = "string" THEN key ELSE stop("syntax")
            ELSE IF exp = "key" THEN IF t = "string" THEN key ELSE stop("syntax")
            ELSE IF exp = "colon"
                 THEN IF t = ":"
                      THEN ParseFrom(toks, i + 1, stack, "value", path, events)
                      ELSE stop("syntax")
            ELSE \* comma_or_end
                 IF t = "," THEN ParseFrom(toks, i + 1, stack,
                                           IF stack[Len(stack)] = "map" THEN "key"
                                           ELSE "value", path, events)
                 ELSE IF t = "]" /\ stack[Len(stack)] = "array" THEN endArray
                 ELSE IF t = "}" /\ stack[Len(stack)] = "map" THEN endMap
                 ELSE stop("syntax")
Parse(b) == ParseFrom(Lex(b, 1), 1, <<>>, "value", <<>>, <<>>)

\* The events the caller's loop receives before the parser raises. A backend
\* that parses a whole read before handing out events (yajl2_c) raises on a
\* syntax error without handing out the events that precede it in the read;
\* one that hands them out first (python) delivers them. The end of the data
\* is found only after the events of the last read were handed out.
Delivered(p, eagerly) == IF p.error = "syntax" /\ eagerly THEN <<>> ELSE p.events

\* prefix.endswith(".item")
EndsWithItem(prefix) == Len(prefix) >= 2 /\ prefix[Len(prefix)] = "item"

\* Lines 81-99: the loop of feed over the events. The inner loop takes the
\* events up to the next end_array and keeps the strings and numbers.
RECURSIVE Walk(_, _, _, _)
Walk(ev, i, sf, sl) ==
    IF i > Len(ev) THEN [first |-> sf, last |-> sl, raised |-> FALSE, message |-> NoMessage]
    ELSE LET sf2 == sf \/ (ev[i].prefix = <<"first_names">> /\ ev[i].event = "start_array")
             sl2 == sl \/ (ev[i].prefix = <<"last_names">> /\ ev[i].event = "start_array")
             ends == {j \in i + 1 .. Len(ev) : ev[j].event = "end_array"}
             j == CHOOSE x \in ends : \A y \in ends : x <= y
             item == {k \in i + 1 .. j - 1 : ev[k].event \in {"string", "number"}}
             values == SelectSeq([k \in 1 .. j - 1 - i |-> ev[i + k].event],
                                 LAMBDA x : x \in {"string", "number"})
         IN IF ev[i].event = "start_array" /\ EndsWithItem(ev[i].prefix)
            THEN IF ends = {}
                 THEN [first |-> sf2, last |-> sl2, raised |-> FALSE, message |-> NoMessage]
                 ELSE IF Cardinality(item) # 2
                      THEN [first |-> sf2, last |-> sl2, raised |-> TRUE,
                            message |-> Message("Invalid item structure in",
                                                ev[i].prefix, values)]
                      ELSE Walk(ev, j + 1, sf2, sl2)
            ELSE Walk(ev, i + 1, sf2, sl2)

\* Line 78: what feed parses, given the buffer with the chunk appended.
FeedInputChunk(buf, piece) == piece
FeedInput(buf, piece) == buf

\* Lines 128-139: how finish ends.
FinishOutcomeLenient(buf, sf, sl) ==
    IF ~sf /\ ~sl THEN "missing_keys" ELSE "accepted"
FinishOutcome(buf, sf, sl) ==
    IF Parse(buf).error # "none" THEN "malformed"
    ELSE IF ~sf /\ ~sl THEN "missing_keys"
    ELSE "accepted"

\* Lines 135-139: the message finish raises with.
FinishMessage(outcome) ==
    IF outcome = "malformed" THEN Message("Malformed JSON input.", <<>>, <<>>)
    ELSE IF outcome = "missing_keys"
    THEN Message("Input must contain at least one of 'first_names' or 'last_names'.",
                 <<>>, <<>>)
    ELSE NoMessage

\* The bytes end inside a string, a literal or a number.
InsideToken(b) ==
    /\ b # <<>>
    /\ \/ b[Len(b)] \in Keys \cup {"str", "nu"}
       \/ b[Len(b)] = "d" /\ (Len(b) = 1 \/ b[Len(b) - 1] # "d")

InitVal ==
    /\ PipeIdle
    /\ SortIdle
    /\ AdaptIdle
    /\ SaveIdle
    /\ TwoIdle
    /\ doc \in Docs
    /\ tail \in (IF doc \in SimpleDocs THEN BOOLEAN ELSE {FALSE})
    /\ eager \in (IF tail THEN BOOLEAN ELSE {FALSE})
    /\ body = DocBytes(doc) \o (IF tail THEN <<"]">> ELSE <<>>)
    /\ v_buffer = <<>>
    /\ seen_first_names = FALSE
    /\ seen_last_names = FALSE
    /\ vstate = "feeding"
    /\ v_message = NoMessage
    /\ cut_inside_token = FALSE

\* Lines 77-103: what feed finds, the chunk being appended to the buffer.
FeedCall(buf, piece) ==
    Walk(Delivered(Parse(FeedInput(buf, piece)), eager), 1,
         seen_first_names, seen_last_names)

\* Lines 75-103: feed(chunk), for the next n bytes of the body.
Feed ==
    /\ vstate = "feeding"
    /\ \E n \in 1 .. Len(body) - Len(v_buffer) :
       LET piece == SubSeq(body, Len(v_buffer) + 1, Len(v_buffer) + n)
           buf == v_buffer \o piece
           r == FeedCall(buf, piece)
       IN /\ v_buffer' = buf
          /\ seen_first_names' = r.first
          /\ seen_last_names' = r.last
          /\ vstate' = IF r.raised THEN "invalid_item" ELSE "feeding"
          /\ v_message' = r.message
          /\ cut_inside_token' = (cut_inside_token \/ InsideToken(buf))
    /\ UNCHANGED <<doc, tail, eager, body>>
    /\ UNCHANGED offVal

\* Lines 128-139: finish().
Finish ==
    /\ vstate = "feeding"
    /\ vstate' = FinishOutcome(v_buffer, seen_first_names, seen_last_names)
    /\ v_message' = FinishMessage(vstate')
    /\ UNCHANGED <<doc, tail, eager, body, v_buffer, seen_first_names, seen_last_names,
                   cut_inside_token>>
    /\ UNCHANGED offVal

NextVal ==
    \/ Feed
    \/ Finish

SpecVal == InitVal /\ [][NextVal]_vars

\* The shape the validator is to admit: an object whose keys are first_names
\* or last_names, at least one of them, each with an array of [string, number]
\* items.
Conforming(d) ==
    /\ d # <<>>
    /\ \A k \in DOMAIN d :
          /\ d[k].key \in {"first_names", "last_names"}
          /\ d[k].value.arr
          /\ \A i \in DOMAIN d[k].value.items :
                /\ d[k].value.items[i].arr
                /\ d[k].value.items[i].elems \in {<<"string", "number">>,
                                                   <<"string", "double">>}

\* The fed bytes are one complete document: the body's object, all of it and
\* nothing after it.
WellFormedFed == v_buffer = DocBytes(doc)

\* Some top-level first_names or last_names holds an array.
HasNamesArray(d) ==
    \E k \in DOMAIN d : d[k].key \in {"first_names", "last_names"} /\ d[k].value.arr

FinishReturnedOrRaised == vstate \in {"accepted", "malformed", "missing_keys"}

\* C7: when every feed and finish returned normally, the fed bytes are a
\* complete document of the admitted shape.
C7_AcceptedIsConforming ==
    vstate = "accepted" => WellFormedFed /\ Conforming(doc)

\* C8: finish raises whenever the fed bytes are not a complete well-formed
\* document (an empty or truncated body included), and whenever they are one
\* without a top-level first_names or last_names array.
C8_FinishRejects ==
    FinishReturnedOrRaised =>
        /\ ~WellFormedFed => vstate = "malformed"
        /\ WellFormedFed /\ ~HasNamesArray(doc) => vstate = "missing_keys"

\* finish was called on a body truncated after its first_names array began
C8_Witness ==
    /\ vstate = "malformed"
    /\ seen_first_names
    /\ v_buffer # <<>>
    /\ Len(v_buffer) < Len(DocBytes(doc))

\* The verdict on the whole body when it arrives as one chunk.
AcceptedWhole ==
    LET r == Walk(Delivered(Parse(body), eager), 1, FALSE, FALSE)
    IN  ~r.raised /\ FinishOutcome(body, r.first, r.last) = "accepted"

\* C9: a document of the admitted shape is accepted however its bytes are
\* split into chunks: no feed raises and finish returns; and for any body the
\* verdict after all its bytes is the verdict of feeding it as one chunk.
C9_ChunkingIrrelevant ==
    /\ Conforming(doc) /\ ~tail =>
          /\ vstate # "invalid_item"
          /\ v_buffer = body /\ vstate # "feeding" => vstate = "accepted"
    /\ v_buffer = body /\ vstate # "feeding" =>
          (vstate = "accepted" <=> AcceptedWhole)

\* a document of the admitted shape with an item was accepted after a feed
\* call that ended inside a token
C9_Witness ==
    /\ Conforming(doc)
    /\ ~tail
    /\ cut_inside_token
    /\ vstate = "accepted"
    /\ \E k \in DOMAIN doc : doc[k].value.items # <<>>

\* The position in the body of the closing bracket of item i of member k.
ClosePos(d, k, i) ==
    LET before == Join([j \in 1 .. k - 1 |-> MemberBytes(d[j])], <<",">>)
        items == d[k].value.items
        earlier == Join([j \in 1 .. i - 1 |-> ItemBytes(items[j])], <<",">>)
    IN  Len(<<"{">> \o before \o (IF k > 1 THEN <<",">> ELSE <<>>)
            \o <<d[k].key, "quote", ":", "[">>
            \o earlier \o (IF i > 1 THEN <<",">> ELSE <<>>)
            \o ItemBytes(items[i]))

\* Item i of member k is an array of other than two elements.
BadArity(d, k, i) ==
    /\ d[k].value.arr
    /\ d[k].value.items[i].arr
    /\ Len(d[k].value.items[i].elems) # 2

\* C10: the feed call that delivers the closing bracket of an item array of
\* other than two elements raises in that same call.
C10_BadArityRaisesAtOnce ==
    [][\A k \in DOMAIN doc : \A i \in DOMAIN doc[k].value.items :
          /\ vstate = "feeding"
          /\ BadArity(doc, k, i)
          /\ Len(v_buffer) < ClosePos(doc, k, i)
          /\ ClosePos(doc, k, i) <= Len(v_buffer')
          => vstate' = "invalid_item"]_vars
\* ==================================================== properties: SpecSort
Records(file) == [k \in DOMAIN file |-> Loads(file[k])]
NonBlank(file) == {k \in DOMAIN file : file[k] # Blank}
Occurs(rec, file) == Count({k \in NonBlank(file) : Loads(file[k]) = rec})
NonDecreasing(file) == \A k \in 1 .. Len(file) - 1 : file[k].i <= file[k + 1].i

\* C3: the sorted file holds the records of the input, each as many times as
\* the input has it, and its ids never decrease.
C3_SortedPermutation ==
    sort_pc = "returned" =>
        /\ Len(sorted_path) = Count(NonBlank(ndjson_path))
        /\ \A k \in NonBlank(ndjson_path) :
              Occurs(Loads(ndjson_path[k]), sorted_path)
              = Occurs(Loads(ndjson_path[k]), ndjson_path)
        /\ \A k \in DOMAIN sorted_path : sorted_path[k] # Blank
        /\ NonDecreasing(sorted_path)

\* Three records in an order that is not sorted, batch_size 2: a full chunk
\* and a residual one, the smaller id in the later chunk.
C3_Witness ==
    /\ sort_pc = "returned"
    /\ sort_batch = 2
    /\ Len(sorted_path) = 3
    /\ ~NonDecreasing(ndjson_path)
    /\ \E k \in DOMAIN ndjson_path : ndjson_path[k] # Blank /\ ndjson_path[k].n > 2
          /\ sorted_path[1] = ndjson_path[k]

\* The records of the lines of the input that are not blank, in its order.
InputRecords == Records(SelectSeq(ndjson_path, LAMBDA l : l # Blank))

\* C30: among the heads with the smallest id the merge takes that of the
\* chunk with the lowest index, so the sorted file is the stable sort by id
\* of the input's records: records of one id keep the order the input has
\* them in, whatever the batch_size, and the file is a function of the input.
C30_MergeStable ==
    sort_pc = "returned" =>
        sorted_path = [k \in DOMAIN InputRecords |-> Dumps(SortById(InputRecords)[k])]

\* Four records in two chunks, of which the first and the third share an id
\* that is not the smallest.
C30_Witness ==
    /\ sort_pc = "returned"
    /\ sort_batch = 2
    /\ Len(ndjson_path) = 4
    /\ Len(sorted_path) = 4
    /\ ndjson_path[1].i = ndjson_path[3].i
    /\ ndjson_path[2].i < ndjson_path[1].i

\* The ids of the records of a file, in its order.
IdsOf(recs) == [k \in DOMAIN recs |-> recs[k][2]]

\* C31: when the ids of the input never decrease, the sorted file holds the
\* same records, each as often as the input, and its sequence of ids is that
\* of the input: only records of one id could have changed places.
C31_SortedInputKept ==
    sort_pc = "returned" /\ NonDecreasing(SelectSeq(ndjson_path, LAMBDA l : l # Blank)) =>
        /\ IdsOf(Records(sorted_path)) = IdsOf(InputRecords)
        /\ \A k \in DOMAIN InputRecords :
              Occurs(InputRecords[k], sorted_path) = Occurs(InputRecords[k], ndjson_path)

\* A sorted input of four lines, one of them blank, with an id that occurs
\* twice and a larger one, cut into two chunks.
C31_Witness ==
    /\ sort_pc = "returned"
    /\ sort_batch = 2
    /\ Len(ndjson_path) = 4
    /\ Len(InputRecords) = 3
    /\ NonDecreasing(SelectSeq(ndjson_path, LAMBDA l : l # Blank))
    /\ InputRecords[1][2] = InputRecords[2][2]
    /\ InputRecords[2][2] < InputRecords[3][2]


\* The messages that say nothing of the request.
SafeMessages ==
    {NoMessage, FinishMessage("malformed"), FinishMessage("missing_keys"),
     Message("Invalid item structure in", <<>>, <<>>)}

\* C14: the message of an InvalidInputError is fixed by the reason of the
\* rejection: no key, name or id of the request is formatted into it.
C14_MessageSaysNothingOfBody == v_message \in SafeMessages

\* Some item of the body has a number with a fraction as its second element.
HasDoubleId(d) ==
    \E k \in DOMAIN d : \E i \in DOMAIN d[k].value.items :
        /\ Len(d[k].value.items[i].elems) >= 2
        /\ d[k].value.items[i].elems[2] = "double"

\* C20: a body with a non-integer id is never accepted by the validator.
C20_NonIntegerIdRejected == vstate = "accepted" => ~HasDoubleId(doc)

\* C28: what the validator retains between feed calls does not grow with the
\* bytes fed: it never holds the whole of a body longer than the two bytes
\* of {}.
C28_NeverHoldsWholeBody ==
    v_buffer = body => Len(body) <= 2


\* --------------------------------------------------- sync_gen_to_async_gen
\* The chunks of a pipeline generator are bytes: the empty chunk b"" and two
\* others. A chunk is written <<bytes>>, apart from None.
EmptyChunk == <<"">>
ChunkValues == {EmptyChunk, <<"a">>, <<"b">>}
ChunkSeqs(n) == UNION {[1 .. k -> ChunkValues] : k \in 0 .. n}

\* Line 39: next(sync_gen, None), run on the worker. The generator yields its
\* next chunk; at its end it returns (None is the default) or raises.
NextOf(gen, pos, raises) ==
    IF pos < Len(gen) THEN [item |-> gen[pos + 1], raised |-> FALSE]
    ELSE [item |-> None, raised |-> raises]

\* Line 40: if item is None.
IsEndFalsy(x) == x = None \/ x = EmptyChunk
IsEnd(x) == x = None

\* to_thread.run_sync begins with a checkpoint: under a cancelled scope it
\* raises before any work is handed to a worker thread.
MayStartAlways(cancelled) == TRUE
MayStart(cancelled) == ~cancelled

\* Line 39, the await: the adapter goes on when the call on the worker thread
\* has returned or raised, not before.
AwaitOverNow(w) == TRUE
AwaitOver(w) == w \in {"returned", "raised"}

InitAdapt ==
    /\ PipeIdle
    /\ SortIdle
    /\ ValIdle
    /\ SaveIdle
    /\ TwoIdle
    /\ sync_gen \in ChunkSeqs(MaxChunks)
    /\ gen_raises \in BOOLEAN
    /\ gen_pos = 0
    /\ a_pc = "created"
    /\ worker = "idle"
    /\ a_item = None
    /\ consumer = "holding"
    /\ delivered = <<>>
    /\ advances = 0

\* The consumer asks for the next chunk (__anext__): the adapter starts, or
\* resumes after line 42, and is at the top of its loop.
Pull ==
    /\ consumer = "holding"
    /\ a_pc \in {"created", "at_yield"}
    /\ consumer' = "pulling"
    /\ a_pc' = "top"
    /\ UNCHANGED <<sync_gen, gen_raises, gen_pos, worker, a_item, delivered, advances>>
    /\ UNCHANGED offAdapt

\* Line 39, the call: one advance of the generator is handed to the worker.
StartAdvance ==
    /\ a_pc = "top"
    /\ IF MayStart(consumer = "dropped")
       THEN /\ a_pc' = "awaiting"
            /\ worker' = "running"
            /\ advances' = advances + 1
       ELSE /\ a_pc' = "closed"
            /\ UNCHANGED <<worker, advances>>
    /\ UNCHANGED <<sync_gen, gen_raises, gen_pos, a_item, consumer, delivered>>
    /\ UNCHANGED offAdapt

\* Line 39, on the worker thread: next(sync_gen, None) runs to its end.
WorkerAdvance ==
    /\ worker = "running"
    /\ LET r == NextOf(sync_gen, gen_pos, gen_raises)
       IN /\ a_item' = r.item
          /\ worker' = IF r.raised THEN "raised" ELSE "returned"
          /\ gen_pos' = IF gen_pos < Len(sync_gen) THEN gen_pos + 1 ELSE gen_pos
    /\ UNCHANGED <<sync_gen, gen_raises, a_pc, consumer, delivered, advances>>
    /\ UNCHANGED offAdapt

\* Lines 39-42: the await returns. The wait for the worker is shielded, so a
\* cancellation is seen only now: the chunk is not handed on. Else the
\* generator's exception is raised, or the loop ends on None, or the chunk is
\* yielded to the consumer.
Resume ==
    /\ a_pc = "awaiting"
    /\ AwaitOver(worker)
    /\ worker' = "idle"
    /\ IF consumer = "dropped"
       THEN /\ a_pc' = "closed"
            /\ UNCHANGED <<consumer, delivered>>
       ELSE IF worker = "raised"
       THEN /\ a_pc' = "failed"
            /\ consumer' = "ended"
            /\ UNCHANGED delivered
       ELSE IF IsEnd(a_item)
       THEN /\ a_pc' = "done"
            /\ consumer' = "ended"
            /\ UNCHANGED delivered
       ELSE /\ a_pc' = "at_yield"
            /\ consumer' = "holding"
            /\ delivered' = Append(delivered, a_item)
    /\ UNCHANGED <<sync_gen, gen_raises, gen_pos, a_item, advances>>
    /\ UNCHANGED offAdapt

\* The consumer drops the stream (client disconnect). An adapter that is not
\* running is closed at once; one inside line 39 finds out there.
DropStream ==
    /\ consumer \in {"holding", "pulling"}
    /\ consumer' = "dropped"
    /\ a_pc' = IF a_pc \in {"created", "at_yield"} THEN "closed" ELSE a_pc
    /\ UNCHANGED <<sync_gen, gen_raises, gen_pos, worker, a_item, delivered, advances>>
    /\ UNCHANGED offAdapt

NextAdapt ==
    \/ Pull
    \/ StartAdvance
    \/ WorkerAdvance
    \/ Resume
    \/ DropStream

SpecAdapt == InitAdapt /\ [][NextAdapt]_vars

\* C15: the consumer receives the generator's chunks, in order, none dropped
\* or repeated, the empty ones too; the stream ends when the generator has
\* returned, and only then.
C15_SameSequence ==
    /\ Len(delivered) <= gen_pos
    /\ delivered = SubSeq(sync_gen, 1, Len(delivered))
    /\ a_pc = "at_yield" => Len(delivered) = gen_pos
    /\ a_pc = "done" => delivered = sync_gen /\ ~gen_raises
    /\ a_pc = "failed" => delivered = sync_gen /\ gen_raises

\* a generator with an empty chunk before another chunk was streamed to its end
C15_Witness ==
    /\ a_pc = "done"
    /\ \E k \in 1 .. Len(sync_gen) - 1 : sync_gen[k] = EmptyChunk
    /\ delivered = sync_gen

\* C16: once the consumer has dropped the stream no advance of the generator
\* is started; one that is running may finish.
C16_NoAdvanceAfterDrop ==
    [][consumer = "dropped" => advances' = advances]_vars

\* the stream was dropped while an advance was running; the advance finished,
\* its chunk was discarded and the adapter closed with chunks still to come
C16_Witness ==
    /\ a_pc = "closed"
    /\ consumer = "dropped"
    /\ worker = "idle"
    /\ gen_pos > Len(delivered)
    /\ gen_pos < Len(sync_gen)

\* C24: an advance of the generator is started only when no advance is
\* running on the worker, every earlier advance has returned and the chunk
\* of each has been handed to the consumer.
C24_OneAdvanceInFlight ==
    [][advances' # advances =>
           /\ advances' = advances + 1
           /\ worker = "idle"
           /\ gen_pos = advances
           /\ Len(delivered) = advances]_vars

\* The third advance is running on the worker; two chunks have been handed on.
C24_Witness ==
    /\ worker = "running"
    /\ a_pc = "awaiting"
    /\ advances = 3
    /\ gen_pos = 2
    /\ Len(delivered) = 2


\* -------------------- save_request_to_tempfile / save_request_with_handling
\* The bodies saved: those of well-formed items, and one with a short item.
ShortItemDoc == <<Member("first_names", ArrayValue(<<ArrayItem(<<"string">>)>>))>>
SaveDocs == SimpleDocs \cup {ShortItemDoc}

\* The exception of each failure of the file or of the request's stream.
FaultExc(fault) == IF fault = "stream" THEN "ClientDisconnect" ELSE "OSError"

\* io_utils lines 79-82: InvalidInputError is raised again as it is, any other
\* exception is wrapped in TempfileSaveError.
Wrapped(exc) ==
    Exc("TempfileSaveError",
        Message("Failed to save request body to temporary file", <<>>, <<>>),
        exc.class)
WrapAll(exc) == Wrapped(exc)
Wrap(exc) == IF exc.class = "InvalidInputError" THEN exc ELSE Wrapped(exc)

\* request_utils lines 35 and 42: the status of the Response.
StatusOf(exc) == IF exc.class = "InvalidInputError" THEN 400 ELSE 500

\* request_utils lines 27-42: the exception becomes a Response with e.message.
Handled(exc) == Result("response", StatusOf(exc), exc.message)

\* io_utils line 70: temp.write(chunk).
WrittenLast(content, piece) == piece
Written(content, piece) == content \o piece

InitSave ==
    /\ PipeIdle
    /\ SortIdle
    /\ AdaptIdle
    /\ TwoIdle
    /\ doc \in SaveDocs
    /\ tail = FALSE
    /\ eager = FALSE
    /\ body = DocBytes(doc)
    /\ v_buffer = <<>>
    /\ seen_first_names = FALSE
    /\ seen_last_names = FALSE
    /\ vstate = "idle"
    /\ v_message = NoMessage
    /\ cut_inside_token = FALSE
    /\ temp = "none"
    /\ temp_content = <<>>
    /\ s_pc = "start"
    /\ s_fault = "none"
    /\ s_exc = NoExc
    /\ s_result = NoResult

\* The request fails with exc: it leaves save_request_to_tempfile wrapped or
\* not, and save_request_with_handling answers it.
Fails(exc) ==
    /\ s_pc' = "raised"
    /\ s_exc' = Wrap(exc)
    /\ s_result' = Handled(Wrap(exc))

\* io_utils lines 65-66: the temporary file is made, or cannot be, and the
\* validator is made.
SaveOpen ==
    /\ s_pc = "start"
    /\ \/ /\ temp' = "open"
          /\ vstate' = "feeding"
          /\ s_pc' = "streaming"
          /\ UNCHANGED <<s_fault, s_exc, s_result>>
       \/ /\ s_fault' = "create"
          /\ Fails(Exc(FaultExc("create"), NoMessage, "none"))
          /\ UNCHANGED <<temp, vstate>>
    /\ UNCHANGED <<doc, tail, eager, body, v_buffer, seen_first_names, seen_last_names,
                   v_message, cut_inside_token, temp_content>>
    /\ UNCHANGED offSave

\* io_utils lines 69-71, 74-75: the stream gives the next n bytes, or fails;
\* the chunk is written, or the write fails; the chunk is fed to the
\* validator. On any exception the file is closed.
SaveChunk ==
    /\ s_pc = "streaming"
    /\ \E n \in 1 .. Len(body) - Len(v_buffer) :
       LET piece == SubSeq(body, Len(v_buffer) + 1, Len(v_buffer) + n)
           buf == v_buffer \o piece
           r == FeedCall(buf, piece)
       IN \/ /\ temp_content' = Written(temp_content, piece)
             /\ v_buffer' = buf
             /\ seen_first_names' = r.first
             /\ seen_last_names' = r.last
             /\ v_message' = r.message
             /\ cut_inside_token' = (cut_inside_token \/ InsideToken(buf))
             /\ IF r.raised
                THEN /\ vstate' = "invalid_item"
                     /\ temp' = "closed"
                     /\ Fails(Exc("InvalidInputError", r.message, "none"))
                ELSE UNCHANGED <<vstate, temp, s_pc, s_exc, s_result>>
             /\ UNCHANGED s_fault
          \/ /\ \E f \in {"stream", "write"} : 
                  /\ s_fault' = f
                  /\ Fails(Exc(FaultExc(f), NoMessage, "none"))
             /\ temp' = "closed"
             /\ UNCHANGED <<temp_content, v_buffer, seen_first_names, seen_last_names,
                            v_message, cut_inside_token, vstate>>
    /\ UNCHANGED <<doc, tail, eager, body>>
    /\ UNCHANGED offSave

\* io_utils lines 72-77: the stream has ended: flush, which can fail, then
\* finish; the file is closed and its name returned, or the exception leaves.
SaveEnd ==
    /\ s_pc = "streaming"
    /\ temp' = "closed"
    /\ \/ /\ vstate' = FinishOutcome(v_buffer, seen_first_names, seen_last_names)
          /\ v_message' = FinishMessage(vstate')
          /\ IF vstate' = "accepted"
             THEN /\ s_pc' = "returned"
                  /\ s_result' = Result("path", 0, NoMessage)
                  /\ UNCHANGED s_exc
             ELSE Fails(Exc("InvalidInputError", v_message', "none"))
          /\ UNCHANGED s_fault
       \/ /\ s_fault' = "flush"
          /\ Fails(Exc(FaultExc("flush"), NoMessage, "none"))
          /\ UNCHANGED <<vstate, v_message>>
    /\ UNCHANGED <<doc, tail, eager, body, v_buffer, seen_first_names, seen_last_names,
                   cut_inside_token, temp_content>>
    /\ UNCHANGED offSave

NextSave ==
    \/ SaveOpen
    \/ SaveChunk
    \/ SaveEnd

SpecSave == InitSave /\ [][NextSave]_vars

\* -------------------------------- combine_names: the saving of the body
\* main.py lines 95-98: the endpoint saves the body itself, with no validator
\* and no handler around the file or the stream; an exception of these lines
\* leaves combine_names as it is. After line 98 the pipeline is started.
Escapes(exc) ==
    /\ s_pc' = "raised"
    /\ s_exc' = exc
    /\ s_result' = Result("escaped", 0, NoMessage)

\* main.py line 95.
CombineOpen ==
    /\ s_pc = "start"
    /\ \/ /\ temp' = "open"
          /\ s_pc' = "streaming"
          /\ UNCHANGED <<s_fault, s_exc, s_result>>
       \/ /\ s_fault' = "create"
          /\ Escapes(Exc(FaultExc("create"), NoMessage, "none"))
          /\ UNCHANGED temp
    /\ UNCHANGED <<valVars, temp_content>>
    /\ UNCHANGED offSave

\* main.py lines 96-97; the file is left open when they raise.
CombineChunk ==
    /\ s_pc = "streaming"
    /\ \E n \in 1 .. Len(body) - Len(temp_content) :
       \/ /\ temp_content' =
                 Written(temp_content,
                         SubSeq(body, Len(temp_content) + 1, Len(temp_content) + n))
          /\ UNCHANGED <<s_pc, s_fault, s_exc, s_result>>
       \/ /\ \E f \in {"stream", "write"} :
               /\ s_fault' = f
               /\ Escapes(Exc(FaultExc(f), NoMessage, "none"))
          /\ UNCHANGED temp_content
    /\ UNCHANGED <<valVars, temp>>
    /\ UNCHANGED offSave

\* main.py lines 98-103: close, which flushes and can fail, then the pipeline.
CombineClose ==
    /\ s_pc = "streaming"
    /\ \/ /\ temp' = "closed"
          /\ s_pc' = "pipeline"
          /\ s_result' = Result("path", 0, NoMessage)
          /\ UNCHANGED <<s_fault, s_exc>>
       \/ /\ s_fault' = "flush"
          /\ Escapes(Exc(FaultExc("flush"), NoMessage, "none"))
          /\ UNCHANGED temp
    /\ UNCHANGED <<valVars, temp_content>>
    /\ UNCHANGED offSave

NextCombine ==
    \/ CombineOpen
    \/ CombineChunk
    \/ CombineClose

SpecCombine == InitSave /\ [][NextCombine]_vars

\* save_request_with_handling answers each exception it is given with the
\* status of its class and the exception's message, and lets none escape.
HandlingMapsStatus ==
    s_pc = "raised" =>
        /\ s_exc.class \in {"InvalidInputError", "TempfileSaveError"}
        /\ s_result = Result("response",
                             IF s_exc.class = "InvalidInputError" THEN 400 ELSE 500,
                             s_exc.message)

\* C17: a failure of the saving of the request's body becomes a response of
\* status 400 (InvalidInputError) or 500 (TempfileSaveError) with the error's
\* message, no exception escapes, and the pipeline is started only for a body
\* that was saved and validated.
C17_SaveFailureAnswered ==
    /\ HandlingMapsStatus
    /\ s_pc = "pipeline" =>
           FinishOutcome(temp_content, HasNamesArray(doc), HasNamesArray(doc)) = "accepted"

\* The whole body has been streamed and neither the file nor the stream failed.
StreamedWhole == s_pc \in {"returned", "raised"} /\ s_fault = "none" /\ v_buffer = body

C19_FailuresWrapped ==
    /\ s_fault # "none" =>
           /\ s_pc = "raised"
           /\ s_exc.class = "TempfileSaveError"
           /\ s_exc.original = FaultExc(s_fault)
    /\ s_pc = "raised" /\ s_fault = "none" =>
           /\ s_exc = Exc("InvalidInputError", v_message, "none")
           /\ v_message # NoMessage
    /\ s_pc = "raised" => temp = (IF s_fault = "create" THEN "none" ELSE "closed")

\* A write that fails on a later chunk.
C19_Witness ==
    /\ s_pc = "raised"
    /\ s_fault = "write"
    /\ temp_content # <<>>
    /\ temp = "closed"
    /\ s_exc.class = "TempfileSaveError"

\* ------------------------------------------------- two concurrent requests
\* merge_full_names and merge_unpaired as functions of the two sorted files:
\* the entry lines they emit from the cursors i and j on.
RECURSIVE FullNames(_, _, _, _, _)
FullNames(F, L, i, j, isFirst) ==
    LET fc == Current(F, i)
        lc == Current(L, j)
    IN IF fc = None \/ lc = None THEN <<>>
       ELSE IF fc[2] = lc[2]
       THEN <<FullLine(fc, lc, isFirst)>> \o FullNames(F, L, i + 1, j + 1, FALSE)
       ELSE IF SkipFirst(fc, lc) THEN FullNames(F, L, i + 1, j, isFirst)
       ELSE FullNames(F, L, i, j + 1, isFirst)

RECURSIVE Unpaired(_, _, _, _, _)
Unpaired(F, L, i, j, isFirst) ==
    LET fc == Current(F, i)
        lc == Current(L, j)
    IN IF fc = None /\ lc = None THEN <<>>
       ELSE IF TakeFirst(fc, lc)
       THEN <<UnpairedFirstLine(fc, isFirst)>> \o Unpaired(F, L, i + 1, j, FALSE)
       ELSE IF TakeLast(fc, lc)
       THEN <<UnpairedLastLine(lc, isFirst)>> \o Unpaired(F, L, i, j + 1, FALSE)
       ELSE Unpaired(F, L, i + 1, j + 1, isFirst)

\* Lines 125-131: the envelope made from two sorted files, and the directory
\* the last chunk names.
Envelope(F, L, dir) ==
    [full |-> FullNames(F, L, 1, 1, TRUE),
     unpaired |-> Unpaired(F, L, 1, 1, TRUE),
     dir |-> dir]

\* Lines 92-94, 105-107: the intermediate written for a names array.
SplitLines(items) == [k \in DOMAIN items |-> Dumps(items[k])]

\* The requests sent: the ids of the first names and of the last names.
Request(a, b) == [first |-> ItemsOf(a), last |-> ItemsOf(b)]
TwoInputs ==
    {Request(<<2, 1>>, <<1>>), Request(<<1>>, <<2, 1>>),
     Request(<<1, 1>>, <<1>>), Request(<<>>, <<2>>)}
Reqs == {1, 2}

\* The names NamedTemporaryFile and mkdtemp can draw.
TempNames == {"tmpA.json", "tmpB.json"}
DirNames == {"ndjson_a", "ndjson_b"}

\* tempfile: a name is drawn until one is found that does not exist.
AllNames(f, names) == names
FreshNames(f, names) == {x \in names : <<x>> \notin DOMAIN f}

\* open(path, "w") and write: the file is made or replaced.
WriteFile(f, path, content) ==
    [q \in DOMAIN f \cup {path} |-> IF q = path THEN content ELSE f[q]]

\* The paths of a workspace directory.
FirstPath(d) == <<d, "first_names.ndjson">>
LastPath(d) == <<d, "last_names.ndjson">>
FirstSortedPath(d) == <<d, "first_names.sorted.ndjson">>
LastSortedPath(d) == <<d, "last_names.sorted.ndjson">>
\* Lines 155, 169: the chunk files of a sort, in a directory made next to the
\* intermediate.
ChunkPaths(path, lines, b) ==
    {<<path[1], "tmp_" \o path[2], c>> : c \in 1 .. Len(MakeChunks(lines, 1, <<>>, b))}

InitTwo ==
    /\ PipeIdle
    /\ SortIdle
    /\ ValIdle
    /\ AdaptIdle
    /\ SaveIdle
    /\ fs = <<>>
    /\ \E i \in [Reqs -> TwoInputs], b \in [Reqs -> {1, 2}] :
          reqs = [r \in Reqs |->
                     [input |-> i[r], batch_size |-> b[r], pc |-> "save",
                      temp |-> <<>>, output_dir |-> "", out |-> <<>>,
                      created |-> {}, touched |-> {}]]

\* The request r moves to `to`, having read the paths rd and written the
\* files wr (path -> content), of which it made the paths mk.
Step(r, to, rd, mk) ==
    [reqs[r] EXCEPT !.pc = to,
                    !.created = @ \cup mk,
                    !.touched = @ \cup rd \cup mk]

\* main.py lines 95-98: the body saved to a new temporary file.
ReqSave ==
    \E r \in Reqs :
        /\ reqs[r].pc = "save"
        /\ \E t \in FreshNames(fs, TempNames) :
              /\ fs' = WriteFile(fs, <<t>>, reqs[r].input)
              /\ reqs' = [reqs EXCEPT ![r] =
                             [Step(r, "mkdtemp", {}, {<<t>>}) EXCEPT !.temp = <<t>>]]
        /\ UNCHANGED offTwo

\* name_processing.py lines 82-84: the workspace directory.
ReqMkdtemp ==
    \E r \in Reqs :
        /\ reqs[r].pc = "mkdtemp"
        /\ \E d \in FreshNames(fs, DirNames) :
              /\ fs' = WriteFile(fs, <<d>>, <<>>)
              /\ reqs' = [reqs EXCEPT ![r] =
                             [Step(r, "split_first", {}, {<<d>>}) EXCEPT !.output_dir = d]]
        /\ UNCHANGED offTwo

\* Lines 88-100: first_names.ndjson written from the saved body.
ReqSplitFirst ==
    \E r \in Reqs :
        /\ reqs[r].pc = "split_first"
        /\ LET d == reqs[r].output_dir
           IN /\ fs' = WriteFile(fs, FirstPath(d), SplitLines(fs[reqs[r].temp].first))
              /\ reqs' = [reqs EXCEPT ![r] =
                             Step(r, "split_last", {reqs[r].temp}, {FirstPath(d)})]
        /\ UNCHANGED offTwo

\* Lines 102-113: last_names.ndjson written from the saved body.
ReqSplitLast ==
    \E r \in Reqs :
        /\ reqs[r].pc = "split_last"
        /\ LET d == reqs[r].output_dir
           IN /\ fs' = WriteFile(fs, LastPath(d), SplitLines(fs[reqs[r].temp].last))
              /\ reqs' = [reqs EXCEPT ![r] =
                             Step(r, "sort_first", {reqs[r].temp}, {LastPath(d)})]
        /\ UNCHANGED offTwo

\* Line 119: first_names.ndjson sorted; the chunk directory is gone when the
\* call returns.
ReqSortFirst ==
    \E r \in Reqs :
        /\ reqs[r].pc = "sort_first"
        /\ LET d == reqs[r].output_dir
               lines == fs[FirstPath(d)]
               b == reqs[r].batch_size
           IN /\ fs' = WriteFile(fs, FirstSortedPath(d), ExternalSort(lines, b))
              /\ reqs' = [reqs EXCEPT ![r] =
                             Step(r, "sort_last", {FirstPath(d)},
                                  {FirstSortedPath(d)} \cup ChunkPaths(FirstPath(d), lines, b))]
        /\ UNCHANGED offTwo

\* Line 122: last_names.ndjson sorted.
ReqSortLast ==
    \E r \in Reqs :
        /\ reqs[r].pc = "sort_last"
        /\ LET d == reqs[r].output_dir
               lines == fs[LastPath(d)]
               b == reqs[r].batch_size
           IN /\ fs' = WriteFile(fs, LastSortedPath(d), ExternalSort(lines, b))
              /\ reqs' = [reqs EXCEPT ![r] =
                             Step(r, "merge", {LastPath(d)},
                                  {LastSortedPath(d)} \cup ChunkPaths(LastPath(d), lines, b))]
        /\ UNCHANGED offTwo

\* Lines 125-131: both merges over the two sorted files.
ReqMerge ==
    \E r \in Reqs :
        /\ reqs[r].pc = "merge"
        /\ LET d == reqs[r].output_dir
           IN reqs' = [reqs EXCEPT ![r] =
                          [Step(r, "done", {FirstSortedPath(d), LastSortedPath(d)}, {})
                              EXCEPT !.out = Envelope(fs[FirstSortedPath(d)],
                                                      fs[LastSortedPath(d)], d)]]
        /\ UNCHANGED fs
        /\ UNCHANGED offTwo

NextTwo ==
    \/ ReqSave
    \/ ReqMkdtemp
    \/ ReqSplitFirst
    \/ ReqSplitLast
    \/ ReqSortFirst
    \/ ReqSortLast
    \/ ReqMerge

SpecTwo == InitTwo /\ [][NextTwo]_vars

\* What a request gives when it runs alone in the directory dir.
Alone(input, b, dir) ==
    Envelope(ExternalSort(SplitLines(input.first), b),
             ExternalSort(SplitLines(input.last), b), dir)

\* C23: two requests interleaved in any way have different workspace
\* directories, neither reads or writes a path the other read, wrote or
\* made, and each ends with the output it gives alone.
C23_RequestsIsolated ==
    /\ reqs[1].output_dir # "" => reqs[1].output_dir # reqs[2].output_dir
    /\ reqs[1].touched \cap reqs[2].touched = {}
    /\ \A r \in Reqs :
          reqs[r].pc = "done" =>
              reqs[r].out = Alone(reqs[r].input, reqs[r].batch_size, reqs[r].output_dir)

\* Both requests are done, on different bodies and with different outputs.
C23_Witness ==
    /\ reqs[1].pc = "done"
    /\ reqs[2].pc = "done"
    /\ reqs[1].input # reqs[2].input
    /\ reqs[1].out.full # <<>>
    /\ reqs[2].out.unpaired # <<>>
    /\ reqs[1].out # reqs[2].out

\* C29: every file made for a request lies under the request's workspace
\* directory.
C29_AllUnderWorkspace ==
    \A r \in Reqs :
        reqs[r].pc = "done" =>
            \A q \in reqs[r].created \ {<<reqs[r].output_dir>>} :
                Len(q) >= 2 /\ q[1] = reqs[r].output_dir
====
